---------------------------- MODULE Spec2Model ----------------------------
(***************************************************************************)
(* Model of the artwork-style classification core:                        *)
(*   - DatasetClassifier (backend/app/utils/dataset_classifier.py) and    *)
(*     the upload route that calls it (backend/app/routes/upload.py);     *)
(*   - EmbeddingClassifier and its persisted index                        *)
(*     (backend/app/utils/embedding_classifier.py).                       *)
(*                                                                         *)
(* Numbers: cosine similarities and filename scores are in hundredths     *)
(* (0..100); combined scores and confidences are in thousandths, so       *)
(* 0.7 * base + 0.3 * fname  is  7 * base + 3 * fname.                    *)
(***************************************************************************)
EXTENDS Integers, Sequences, FiniteSets, TLC

VARIABLES
    \* ---- DatasetClassifier (module-level instance dataset_classifier)
    reference_features,  \* dict style -> list of reference feature vectors
    style_counts,        \* dict style -> number of image files found
    result,              \* outcome of the last classify_image call
    call,                \* the inputs of that call and its filename scores
    \* ---- upload route and the uploading user's document
    upload,              \* response of the last upload_artwork request
    n_artworks,          \* Artwork documents of the user
    total_uploads,       \* User.total_uploads
    badges               \* User.badges

dcVars == <<reference_features, style_counts, result, call>>
userVars == <<upload, n_artworks, total_uploads, badges>>

VARIABLES
    \* ---- files of INDEX_DIR_DEFAULT and the dataset directory
    index_files,         \* dataset_index_tf.npz / dataset_index_cv.npz
    meta_file,           \* dataset_index.meta.json
    dataset,             \* (label, image) pairs _iter_dataset_images finds
    \* ---- the running process
    proc,                \* TF_AVAILABLE, CV2_AVAILABLE, and whether np.load
                         \* reads object arrays (allow_pickle default)
    objects,             \* the EmbeddingClassifier instances created
    singleton,           \* _singleton: 0 (None) or the id of an instance
    last_load,           \* what the last _load_or_build_index call did
    ec_result,           \* outcome of the last EmbeddingClassifier.classify
    \* ---- threads calling get_embedding_classifier concurrently
    pc,                  \* position of each thread
    builds_running,      \* index builds in progress
    builds_started       \* index builds started in this process

diskVars == <<index_files, meta_file, dataset>>
ecVars == <<proc, objects, singleton, last_load, ec_result>>
threadVars == <<pc, builds_running, builds_started>>

VARIABLES
    \* ---- cart routes (backend/app/routes/cart_new.py) and their collections
    artworks,            \* Artwork documents: is_for_sale and sold
    carts,               \* CartItem documents: quantity per user and artwork
    orders,              \* Order documents, in the order they were saved
    checkout             \* the checkout request each user has in flight

shopVars == <<artworks, carts, orders, checkout>>

vars == <<dcVars, userVars, diskVars, ecVars, threadVars, shopVars>>

-----------------------------------------------------------------------------
(* Bounds of the model *)

\* longest generated reference folder (number of image files)
MaxFiles == 1
\* the count of index builds saturates here
MaxBuildCount == 2
\* most artworks one user holds at a time
MaxArtworks == 10
\* largest quantity a cart item reaches
MaxQuantity == 2

(* Program constants *)

\* image_files[:10]
RefCap == 10
\* strong / weak filename indicators, in hundredths
FnameStrong == 95
FnameWeak == 70
\* weights of the combined score, in tenths
WeightBase == 7
WeightFname == 3
\* base similarity when a label has references but no similarity was computed
DefaultBase == 30
\* thresholds and confidences, in thousandths
LowThreshold == 500
DefaultConfidence == 750
Boost == 150
ClampMax == 980
FilenameFallbackConfidence == 850
RandomFallbackConfidence == 720
\* upload counts that award the PREMIUM, GOLD and DIAMOND badges
PremiumUploads == 3
GoldUploads == 5
DiamondUploads == 10
\* style_counts fallback when listing the corpus raises
FallbackCountWarli == 95
FallbackCountMadhubani == 95
FallbackCountPithora == 14

-----------------------------------------------------------------------------
(* Labels *)

StyleOrder == <<"warli", "madhubani", "pithora">>

Styles == {StyleOrder[i] : i \in 1..Len(StyleOrder)}

StyleKeywords(style) ==
    CASE style = "warli" -> <<"tribal", "geometric", "simple", "story">>
      [] style = "madhubani" -> <<"intricate", "colorful", "pattern", "folk">>
      [] style = "pithora" -> <<"horse", "ritual", "ceremony", "deity">>
      [] OTHER -> <<>>

-----------------------------------------------------------------------------
(* Strings: str.lower() and the substring test  `needle in hay` *)

UpperAlphabet == "ABCDEFGHIJKLMNOPQRSTUVWXYZ"
LowerAlphabet == "abcdefghijklmnopqrstuvwxyz"

LowerChar(c) ==
    IF \E i \in 1..Len(UpperAlphabet) : SubSeq(UpperAlphabet, i, i) = c
    THEN LET i == CHOOSE j \in 1..Len(UpperAlphabet) : SubSeq(UpperAlphabet, j, j) = c
         IN  SubSeq(LowerAlphabet, i, i)
    ELSE c

RECURSIVE Lower(_)
Lower(s) ==
    IF Len(s) = 0 THEN ""
    ELSE LowerChar(SubSeq(s, 1, 1)) \o Lower(SubSeq(s, 2, Len(s)))

Contains(hay, needle) ==
    \E i \in 1..(Len(hay) - Len(needle) + 1) :
        SubSeq(hay, i, i + Len(needle) - 1) = needle

EndsWith(s, suffix) ==
    /\ Len(s) >= Len(suffix)
    /\ SubSeq(s, Len(s) - Len(suffix) + 1, Len(s)) = suffix

-----------------------------------------------------------------------------
(* Feature vectors and cosine similarity *)

\* Feature vectors are histograms: non-negative entries, never all zero.
RefVecs == {<<1, 0>>, <<1, 1>>}
QueryVecs == {<<1, 0>>, <<0, 1>>}

Dot(a, b) == a[1] * b[1] + a[2] * b[2]

ISqrt(n) == CHOOSE r \in 0..100 : r * r <= n /\ (r + 1) * (r + 1) > n

\* sklearn cosine_similarity, in hundredths (rounded down); 0 for a zero vector
CosineSimilarity(a, b) ==
    LET d == Dot(a, b)
        n == Dot(a, a) * Dot(b, b)
    IN  IF n = 0 THEN 0
        ELSE IF d >= 0 THEN ISqrt((10000 * d * d) \div n)
        ELSE 0 - ISqrt((10000 * d * d) \div n)

Max(a, b) == IF a >= b THEN a ELSE b
Min(a, b) == IF a <= b THEN a ELSE b

\* max(list) of a non-empty list of numbers
RECURSIVE MaxFrom(_, _, _)
MaxFrom(xs, i, m) ==
    IF i > Len(xs) THEN m ELSE MaxFrom(xs, i + 1, Max(m, xs[i]))

MaxOfSeq(xs) == MaxFrom(xs, 2, xs[1])

\* variant: a later key replaces the best one when at least as large
RECURSIVE ArgMaxFrom_LastWins(_, _, _, _)
ArgMaxFrom_LastWins(d, i, best, bestVal) ==
    IF i > Len(StyleOrder) THEN best
    ELSE LET v == d[StyleOrder[i]]
         IN  IF v >= bestVal
             THEN ArgMaxFrom_LastWins(d, i + 1, StyleOrder[i], v)
             ELSE ArgMaxFrom_LastWins(d, i + 1, best, bestVal)

\* max(d, key=d.get) over a dict whose keys were inserted in the order of
\* StyleOrder: the first key, in that order, that carries the largest value
\* (a later key replaces the best one only when strictly larger)
RECURSIVE ArgMaxFrom(_, _, _, _)
ArgMaxFrom(d, i, best, bestVal) ==
    IF i > Len(StyleOrder) THEN best
    ELSE LET v == d[StyleOrder[i]]
         IN  IF v > bestVal
             THEN ArgMaxFrom(d, i + 1, StyleOrder[i], v)
             ELSE ArgMaxFrom(d, i + 1, best, bestVal)

\* variant: the comparison reversed (the first smallest value wins)
RECURSIVE ArgMinFrom(_, _, _, _)
ArgMinFrom(d, i, best, bestVal) ==
    IF i > Len(StyleOrder) THEN best
    ELSE LET v == d[StyleOrder[i]]
         IN  IF v < bestVal
             THEN ArgMinFrom(d, i + 1, StyleOrder[i], v)
             ELSE ArgMinFrom(d, i + 1, best, bestVal)

ArgMinFirst(d) == ArgMinFrom(d, 2, StyleOrder[1], d[StyleOrder[1]])

ArgMaxFirst(d) == ArgMaxFrom(d, 2, StyleOrder[1], d[StyleOrder[1]])

-----------------------------------------------------------------------------
(* DatasetClassifier._load_reference_images *)

\* An image file of a reference folder: decodable with its feature vector,
\* undecodable (Image.open raises), or truncated (Image.open succeeds, the
\* pixel access inside _extract_features raises and random features are
\* returned; the drawn vector is carried in the file).
GoodFile(v) == [kind |-> "img", features |-> v]
TruncatedFile(r) == [kind |-> "truncated", features |-> r]
BadFile == [kind |-> "undecodable", features |-> <<0, 0>>]

FileKinds == {GoodFile(v) : v \in RefVecs}
                 \cup {TruncatedFile(r) : r \in RefVecs} \cup {BadFile}

SeqsUpTo(S, n) == UNION {[1..k -> S] : k \in 0..n}

\* a folder with two different references
PairFolders == {<<GoodFile(<<1, 0>>), GoodFile(<<1, 1>>)>>}

AbsentFolder == [exists |-> FALSE, files |-> <<>>]

\* a reference folder: missing, or the list of its image files
Folders == {AbsentFolder}
             \cup {[exists |-> TRUE, files |-> fs] :
                      fs \in SeqsUpTo(FileKinds, MaxFiles) \cup PairFolders}

Corpora == [Styles -> Folders]

\* variant: the whole list
Take_All(xs, n) == xs

Take(xs, n) == SubSeq(xs, 1, Min(Len(xs), n))

\* the inner loop over image_files[:10]: a file that raises is skipped
RECURSIVE ExtractReferences(_)
ExtractReferences(files) ==
    IF Len(files) = 0 THEN <<>>
    ELSE LET f == Head(files)
         IN  IF f.kind = "undecodable"
             THEN ExtractReferences(Tail(files))
             ELSE <<f.features>> \o ExtractReferences(Tail(files))

FallbackCounts ==
    [s \in Styles |-> CASE s = "warli" -> FallbackCountWarli
                        [] s = "madhubani" -> FallbackCountMadhubani
                        [] OTHER -> FallbackCountPithora]

\* The loop over folder_mapping, from position i on.  failAt is the style
\* whose folder raises while it is listed ("none": no folder does), which
\* leaves the loop through the outer except.
RECURSIVE LoadFrom(_, _, _, _, _)
LoadFrom(i, corpus, failAt, refs, counts) ==
    IF i > Len(StyleOrder)
    THEN [reference_features |-> refs, style_counts |-> counts]
    ELSE LET style == StyleOrder[i]
             folder == corpus[style]
         IN  IF failAt = style
             THEN [reference_features |-> refs, style_counts |-> FallbackCounts]
             ELSE IF ~folder.exists
             THEN LoadFrom(i + 1, corpus, failAt, refs, counts)
             ELSE LoadFrom(i + 1, corpus, failAt,
                      [s \in (DOMAIN refs) \cup {style} |->
                          IF s = style
                          THEN ExtractReferences(Take(folder.files, RefCap))
                          ELSE refs[s]],
                      [counts EXCEPT ![style] = Len(folder.files)])

LoadReferenceImages(corpus, failAt) ==
    LoadFrom(1, corpus, failAt, [s \in {} |-> <<>>], [s \in Styles |-> 0])

-----------------------------------------------------------------------------
(* DatasetClassifier._calculate_filename_similarity, in hundredths *)

RECURSIVE AnyKeyword(_, _)
AnyKeyword(keywords, filename_lower) ==
    IF Len(keywords) = 0 THEN FALSE
    ELSE \/ Contains(filename_lower, Head(keywords))
         \/ AnyKeyword(Tail(keywords), filename_lower)

\* variant: the weak indicators tested before the strong ones
CalculateFilenameSimilarity_WeakFirst(filename, style) ==
    LET filename_lower == Lower(filename)
    IN  IF AnyKeyword(StyleKeywords(style), filename_lower) THEN FnameWeak
        ELSE IF style \in Styles /\ Contains(filename_lower, style)
             THEN FnameStrong
        ELSE 0

CalculateFilenameSimilarity(filename, style) ==
    LET filename_lower == Lower(filename)
    IN  IF style = "warli" /\ Contains(filename_lower, "warli") THEN FnameStrong
        ELSE IF style = "madhubani" /\ Contains(filename_lower, "madhubani")
             THEN FnameStrong
        ELSE IF style = "pithora" /\ Contains(filename_lower, "pithora")
             THEN FnameStrong
        ELSE IF AnyKeyword(StyleKeywords(style), filename_lower) THEN FnameWeak
        ELSE 0

-----------------------------------------------------------------------------
(* Inputs of the requests *)

Filenames == {"my_warli_art.jpg", "WARLI_tribal.PNG", "tribal_story.txt",
              "Madhubani_horse.jpg", "img.jpg", "pithora_warli.jpg"}

\* the two functions above, tabulated once over the model's inputs
FilenameSimilarityOf ==
    [n \in Filenames |-> [s \in Styles |-> CalculateFilenameSimilarity(n, s)]]

CosineSimilarityOf ==
    [a \in QueryVecs |-> [b \in RefVecs |-> CosineSimilarity(a, b)]]

\* the labels, in the order of the except branch's loop, whose name occurs
\* in filename.lower()
NameHitsOf ==
    [n \in Filenames |->
        SelectSeq(StyleOrder, LAMBDA s : Contains(Lower(n), s))]

-----------------------------------------------------------------------------
(* DatasetClassifier.classify_image *)

\* similarities of the query to a label's references, each max(0, sim)
Similarities(uploaded_features, refs) ==
    [i \in 1..Len(refs) |-> Max(0, CosineSimilarityOf[uploaded_features][refs[i]])]

RECURSIVE SumFrom(_, _)
SumFrom(xs, i) == IF i > Len(xs) THEN 0 ELSE xs[i] + SumFrom(xs, i + 1)

\* variant: the average similarity instead of the best one
BaseSimilarity_Average(similarities) ==
    IF Len(similarities) > 0
    THEN SumFrom(similarities, 1) \div Len(similarities)
    ELSE DefaultBase

BaseSimilarity(similarities) ==
    IF Len(similarities) > 0 THEN MaxOfSeq(similarities) ELSE DefaultBase

CombinedScore(base_similarity, filename_score) ==
    WeightBase * base_similarity + WeightFname * filename_score

\* the score recorded for one label
StyleScore(refs, uploaded_features, filename, style) ==
    IF style \notin DOMAIN refs \/ Len(refs[style]) = 0
    THEN 10 * FilenameSimilarityOf[filename][style]
    ELSE CombinedScore(BaseSimilarity(Similarities(uploaded_features, refs[style])),
                       FilenameSimilarityOf[filename][style])

\* variant: the boost without the clamp
BoostConfidence_NoClamp(confidence) == confidence + Boost

\* confidence = min(0.98, confidence + 0.15)
BoostConfidence(confidence) == Min(ClampMax, confidence + Boost)

\* the try block once the image is open and its features are extracted
MainPath(refs, counts, uploaded_features, filename) ==
    LET style_scores == [s \in Styles |->
                            StyleScore(refs, uploaded_features, filename, s)]
        best_style == ArgMaxFirst(style_scores)
        confidence == style_scores[best_style]
        low == confidence < LowThreshold
    IN  [kind |-> "result",
         predicted_style |-> IF low THEN ArgMaxFirst(counts) ELSE best_style,
         confidence_score |->
             BoostConfidence(IF low THEN DefaultConfidence ELSE confidence),
         style_scores |-> style_scores,
         model_version |-> "dataset-comparison-v1",
         dataset_counts |-> counts]

\* variant: the random draw without the filename match before it
ExceptPath_RandomOnly(counts, filename, fallback_style) ==
    [kind |-> "result",
     predicted_style |-> fallback_style,
     confidence_score |-> RandomFallbackConfidence,
     style_scores |-> [s \in {fallback_style} |-> RandomFallbackConfidence],
     model_version |-> "random-fallback-v1",
     dataset_counts |-> counts]

\* the except branch: filename match, then random.choice (the drawn label is
\* fallback_style)
ExceptPath(counts, filename, fallback_style) ==
    LET hits == NameHitsOf[filename]
    IN  IF Len(hits) > 0
        THEN [kind |-> "result",
              predicted_style |-> hits[1],
              confidence_score |-> FilenameFallbackConfidence,
              style_scores |-> [s \in {hits[1]} |-> FilenameFallbackConfidence],
              model_version |-> "fallback-filename-v1",
              dataset_counts |-> counts]
        ELSE [kind |-> "result",
              predicted_style |-> fallback_style,
              confidence_score |-> RandomFallbackConfidence,
              style_scores |->
                  [s \in {fallback_style} |-> RandomFallbackConfidence],
              model_version |-> "random-fallback-v1",
              dataset_counts |-> counts]

Raised == [kind |-> "raise"]

\* An image as it reaches the classifier.  decode is "ok" (features are the
\* image's), "open_fails" (Image.open raises) or "extract_fails" (the
\* extraction raises inside _extract_features, which returns the random
\* vector carried in features).
Images == [decode : {"ok", "extract_fails"}, features : QueryVecs]
              \cup {[decode |-> "open_fails", features |-> <<0, 0>>]}

\* A filename argument: a string, or None (has = FALSE).
NoFilename == [has |-> FALSE, name |-> ""]

ClassifyImage(refs, counts, image, filename, fallback_style) ==
    IF ~filename.has
    THEN \* filename.lower() raises in the try block and again in the handler
         Raised
    ELSE IF image.decode = "open_fails"
    THEN ExceptPath(counts, filename.name, fallback_style)
    ELSE MainPath(refs, counts, image.features, filename.name)

FilenameArgs == {[has |-> TRUE, name |-> n] : n \in Filenames} \cup {NoFilename}

NoCall == [kind |-> "none"]

\* what a classify_image call leaves to observe: its arguments and the
\* filename score it computed for each label (none when Image.open raised
\* or filename is None)
CallRecord(image, filename) ==
    [kind |-> "classify_image",
     image |-> image,
     filename |-> filename,
     filename_scores |->
         IF filename.has /\ image.decode # "open_fails"
         THEN FilenameSimilarityOf[filename.name]
         ELSE [s \in {} |-> 0]]

-----------------------------------------------------------------------------
\* the results a call can return: one, or one per label random.choice draws
ClassifyOutcomes(refs, counts, image, filename) ==
    IF filename.has /\ image.decode = "open_fails"
       /\ Len(NameHitsOf[filename.name]) = 0
    THEN {ClassifyImage(refs, counts, image, filename, fallback_style) :
              fallback_style \in Styles}
    ELSE {ClassifyImage(refs, counts, image, filename, "warli")}

-----------------------------------------------------------------------------
(* EmbeddingClassifier (utils/embedding_classifier.py): the persisted index *)

Methods == {"mobilenetv2", "cvhsv"}

\* self.method and self.index_file, chosen from TF_AVAILABLE in __init__
MethodOf(tf_available) == IF tf_available THEN "mobilenetv2" ELSE "cvhsv"
IndexFileOf(tf_available) == IF tf_available THEN "INDEX_FILE_TF" ELSE "INDEX_FILE_CV"

IndexFileNames == {IndexFileOf(tf) : tf \in BOOLEAN}

\* the labels in lexical order: sorted(set(labels))
LabelOrder == <<"madhubani", "pithora", "warli">>

SortedSet(S) == SelectSeq(LabelOrder, LAMBDA l : l \in S)

Range(xs) == {xs[i] : i \in 1..Len(xs)}

\* An image of the dataset directory: its label (the normalised folder
\* name), its identity, and whether Image.open / the embedding succeeds.
DatasetImage(label, img, decodable) ==
    [label |-> label, img |-> img, decodable |-> decodable]

\* the dataset directories of the model: missing or empty, two labels, one
\* label with an undecodable file among two labels, nothing decodable
Datasets ==
    { <<>>,
      <<DatasetImage("warli", 1, TRUE), DatasetImage("madhubani", 2, TRUE)>>,
      <<DatasetImage("warli", 1, TRUE), DatasetImage("pithora", 3, FALSE),
        DatasetImage("pithora", 4, TRUE), DatasetImage("warli", 5, TRUE)>>,
      <<DatasetImage("madhubani", 6, FALSE)>> }

\* _embed_image: the vector of an image under the process's method.  The
\* vector is identified by its image and by the method that produced it.
EmbedImage(tf_available, img) == [img |-> img, by |-> MethodOf(tf_available)]

NoFile == [exists |-> FALSE, embeddings |-> <<>>, labels |-> <<>>]
NoMeta == [exists |-> FALSE, method |-> "", label_names |-> <<>>]

NoEmbeddings == [is_none |-> TRUE, rows |-> <<>>]
Rows(rows) == [is_none |-> FALSE, rows |-> rows]

\* variant: every label mapped to every position
RebuildClassIndices_AllPositions(labels) ==
    [l \in Range(labels) |-> [i \in 1..Len(labels) |-> i]]

\* _rebuild_class_indices (positions counted from 1)
RebuildClassIndices(labels) ==
    [l \in Range(labels) |-> SelectSeq([i \in 1..Len(labels) |-> i],
                                       LAMBDA i : labels[i] = l)]

\* variant: method and index file fixed to the deep-learning ones, whatever
\* the runtime offers
NewInstance_AlwaysTF(tf_available) ==
    [method |-> "mobilenetv2",
     index_file |-> "INDEX_FILE_TF",
     labels |-> <<>>,
     embeddings |-> NoEmbeddings,
     label_names |-> <<>>,
     class_to_indices |-> [l \in {} |-> <<>>],
     loaded |-> FALSE]

\* the fields __init__ sets before it loads or builds the index
NewInstance(tf_available) ==
    [method |-> MethodOf(tf_available),
     index_file |-> IndexFileOf(tf_available),
     labels |-> <<>>,
     embeddings |-> NoEmbeddings,
     label_names |-> <<>>,
     class_to_indices |-> [l \in {} |-> <<>>],
     loaded |-> FALSE]

\* The load branch of _load_or_build_index.  done: it returned with the
\* index loaded; otherwise the except clause was reached and self keeps
\* what was assigned before the exception.
\* variant: the method tag of the metadata is not compared
LoadIndex_NoMethodCheck(self, file, meta, allow_pickle) ==
    IF ~(file.exists /\ meta.exists)
    THEN [self |-> self, done |-> FALSE, tried |-> FALSE, mismatch |-> FALSE]
    ELSE LET s1 == [self EXCEPT !.embeddings = Rows(file.embeddings)]
             s2 == [s1 EXCEPT !.labels = file.labels]
         IN  IF ~allow_pickle
             THEN [self |-> s1, done |-> FALSE, tried |-> TRUE, mismatch |-> FALSE]
             ELSE [self |-> [s2 EXCEPT !.label_names = meta.label_names,
                                       !.class_to_indices = RebuildClassIndices(s2.labels),
                                       !.loaded = TRUE],
                   done |-> TRUE, tried |-> TRUE,
                   mismatch |-> meta.method # self.method]

LoadIndex(self, file, meta, allow_pickle) ==
    IF ~(file.exists /\ meta.exists)
    THEN [self |-> self, done |-> FALSE, tried |-> FALSE, mismatch |-> FALSE]
    ELSE LET s1 == [self EXCEPT !.embeddings = Rows(file.embeddings)]
             s2 == [s1 EXCEPT !.labels = file.labels]
         IN  IF ~allow_pickle
             THEN \* data['labels'] is an object array: np.load raises
                  [self |-> s1, done |-> FALSE, tried |-> TRUE, mismatch |-> FALSE]
             ELSE IF meta.method # self.method
             THEN [self |-> s2, done |-> FALSE, tried |-> TRUE, mismatch |-> TRUE]
             ELSE [self |-> [s2 EXCEPT !.label_names = meta.label_names,
                                       !.class_to_indices = RebuildClassIndices(s2.labels),
                                       !.loaded = TRUE],
                   done |-> TRUE, tried |-> TRUE, mismatch |-> FALSE]

\* by_class: the labels in the order they are first met
RECURSIVE FirstSeen(_, _)
FirstSeen(items, seen) ==
    IF Len(items) = 0 THEN <<>>
    ELSE IF Head(items).label \in seen THEN FirstSeen(Tail(items), seen)
    ELSE <<Head(items).label>>
             \o FirstSeen(Tail(items), seen \cup {Head(items).label})

\* the loop over one label's paths: an image that raises is skipped and
\* does not count; the loop stops once count reaches max_per_class
RECURSIVE EmbedPaths(_, _, _, _)
EmbedPaths(paths, count, max_per_class, tf_available) ==
    IF Len(paths) = 0 \/ count >= max_per_class THEN <<>>
    ELSE IF ~Head(paths).decodable
    THEN EmbedPaths(Tail(paths), count, max_per_class, tf_available)
    ELSE <<EmbedImage(tf_available, Head(paths).img)>>
             \o EmbedPaths(Tail(paths), count + 1, max_per_class, tf_available)

RECURSIVE BuildRows(_, _, _, _)
BuildRows(class_order, items, max_per_class, tf_available) ==
    IF Len(class_order) = 0 THEN [embeddings |-> <<>>, labels |-> <<>>]
    ELSE LET label == Head(class_order)
             paths == SelectSeq(items, LAMBDA it : it.label = label)
             embs == EmbedPaths(paths, 0, max_per_class, tf_available)
             rest == BuildRows(Tail(class_order), items, max_per_class, tf_available)
         IN  [embeddings |-> embs \o rest.embeddings,
              labels |-> [i \in 1..Len(embs) |-> label] \o rest.labels]

\* The build branch of _load_or_build_index, up to the assignment of the
\* new index to self.  done = FALSE: a RuntimeError was raised (no items, or
\* no embedding created) and self is unchanged.
BuildIndex(self, items, max_per_class, tf_available) ==
    LET built == BuildRows(FirstSeen(items, {}), items, max_per_class, tf_available)
    IN  IF Len(items) = 0 \/ Len(built.embeddings) = 0
        THEN [self |-> self, done |-> FALSE]
        ELSE [self |-> [self EXCEPT
                           !.embeddings = Rows(built.embeddings),
                           !.labels = built.labels,
                           !.label_names = SortedSet(Range(built.labels)),
                           !.class_to_indices = RebuildClassIndices(built.labels)],
              done |-> TRUE]

\* np.savez(self.index_file, ...) and the metadata record written after it
SavedFile(self) ==
    [exists |-> TRUE, embeddings |-> self.embeddings.rows, labels |-> self.labels]

SavedMeta(self) ==
    [exists |-> TRUE, method |-> self.method, label_names |-> self.label_names]

DefaultMaxPerClass == 400

\* _load_or_build_index(max_per_class) as one call: the instance, the files
\* and the metadata it leaves, and how it ended ("loaded", "built" or
\* "raise")
LoadOrBuildIndexWith(self, files, meta, items, env, max_per_class) ==
    LET load == LoadIndex(self, files[self.index_file], meta, env.allow_pickle)
        build == BuildIndex(load.self, items, max_per_class, env.tf)
        report(outcome) ==
            [outcome |-> outcome,
             max_per_class |-> max_per_class,
             tried_load |-> load.tried,
             build_entered |-> ~load.done,
             mismatch |-> load.mismatch,
             method |-> self.method,
             file_before |-> files[self.index_file],
             meta_before |-> meta]
    IN  IF load.done
        THEN [self |-> load.self, files |-> files, meta |-> meta,
              report |-> report("loaded")]
        ELSE IF ~build.done
        THEN [self |-> load.self, files |-> files, meta |-> meta,
              report |-> report("raise")]
        ELSE [self |-> [build.self EXCEPT !.loaded = TRUE],
              files |-> [files EXCEPT ![self.index_file] = SavedFile(build.self)],
              meta |-> SavedMeta(build.self),
              report |-> report("built")]

\* the call without argument: max_per_class takes its default
LoadOrBuildIndex(self, files, meta, items, env) ==
    LoadOrBuildIndexWith(self, files, meta, items, env, DefaultMaxPerClass)

NoLoad == [outcome |-> "none"]
NoResult == [kind |-> "none"]
NoObject == [exists |-> FALSE]

ObjectIds == {1, 2}

\* a process as it starts: the optional libraries it can import
ProcessEnvs == [tf : BOOLEAN, cv2 : BOOLEAN, allow_pickle : BOOLEAN]

\* the process-local state right after the module is imported
FreshProcess(env) ==
    /\ proc = env
    /\ objects = [o \in ObjectIds |-> NoObject]
    /\ singleton = 0
    /\ last_load = NoLoad
    /\ ec_result = NoResult
    /\ pc = [t \in ObjectIds |-> "idle"]
    /\ builds_running = 0
    /\ builds_started = 0

\* no index on disk and no process using the embedding classifier
InitEmbeddingIdle ==
    /\ index_files = [f \in IndexFileNames |-> NoFile]
    /\ meta_file = NoMeta
    /\ dataset = <<>>
    /\ FreshProcess([tf |-> FALSE, cv2 |-> FALSE, allow_pickle |-> FALSE])

embeddingVars == <<diskVars, ecVars, threadVars>>

\* The shop the cart routes work on: artworks offered for sale and unsold,
\* empty carts, no orders, no checkout request in flight.
Buyers == {1, 2}
ArtworkIds == {1, 2}

NoArtwork == [id |-> 0, is_for_sale |-> FALSE, sold |-> FALSE]

IdleCheckout == [pc |-> "idle", status |-> 0, cart_items |-> <<>>, next |-> 0,
                 artwork |-> NoArtwork, order_items |-> <<>>]

InitShop ==
    /\ artworks = [a \in ArtworkIds |-> [is_for_sale |-> TRUE, sold |-> FALSE]]
    /\ carts = [u \in Buyers |-> <<>>]
    /\ orders = <<>>
    /\ checkout = [u \in Buyers |-> IdleCheckout]

-----------------------------------------------------------------------------
(* The classifier on its own: dataset_classifier = DatasetClassifier() at   *)
(* import, then classify_image calls                                        *)

InitUser ==
    /\ upload = [status |-> "none"]
    /\ n_artworks = 0
    /\ total_uploads = 0
    /\ badges = <<>>

\* the state after DatasetClassifier.__init__ over some corpus
InitClassifier(corpora) ==
    /\ \E corpus \in corpora, failAt \in Styles \cup {"none"} :
          LET loaded == LoadReferenceImages(corpus, failAt)
          IN  /\ reference_features = loaded.reference_features
              /\ style_counts = loaded.style_counts
    /\ result = NoCall
    /\ call = NoCall

Init == InitClassifier(Corpora) /\ InitUser /\ InitShop /\ InitEmbeddingIdle

\* variant: a call that drops the references it compared against
Classify_DropsReferences ==
    \E image \in Images, filename \in FilenameArgs :
        /\ result' \in ClassifyOutcomes(reference_features, style_counts,
                                        image, filename)
        /\ call' = CallRecord(image, filename)
        /\ reference_features' = [s \in DOMAIN reference_features |-> <<>>]
        /\ UNCHANGED <<shopVars, style_counts, userVars, embeddingVars>>

\* dataset_classifier.classify_image(image_data, filename)
Classify ==
    \E image \in Images, filename \in FilenameArgs :
        /\ result' \in ClassifyOutcomes(reference_features, style_counts,
                                        image, filename)
        /\ call' = CallRecord(image, filename)
        /\ UNCHANGED <<shopVars, reference_features, style_counts, userVars, embeddingVars>>

Next == Classify

Spec == Init /\ [][Next]_vars

-----------------------------------------------------------------------------
(* The upload route (routes/upload.py) and the artwork deletion route       *)
(* (routes/gallery.py), for one authenticated user                          *)

ImageExtensions == <<".png", ".jpg", ".jpeg", ".webp">>

HasImageExtension(name) ==
    \E i \in 1..Len(ImageExtensions) : EndsWith(Lower(name), ImageExtensions[i])

HasImageExtensionOf == [n \in Filenames |-> HasImageExtension(n)]

\* validate_image_file: the status it raises, or "ok"
ValidateImageFile(content_type_image, filename, too_large) ==
    IF ~content_type_image /\ filename.has /\ ~HasImageExtensionOf[filename.name]
    THEN "400"
    ELSE IF too_large THEN "400"
    ELSE "ok"

\* variant: the gold badge one upload late
AwardBadges_GoldLate(uploads, held) ==
    LET Holds(b) == \E i \in 1..Len(held) : held[i] = b
    IN  IF uploads >= DiamondUploads /\ ~Holds("diamond")
        THEN Append(held, "diamond")
        ELSE IF uploads >= GoldUploads + 1 /\ ~Holds("gold")
        THEN Append(held, "gold")
        ELSE IF uploads >= PremiumUploads /\ ~Holds("premium")
        THEN Append(held, "premium")
        ELSE held

\* the badge branch of upload_artwork, given the incremented count
AwardBadges(uploads, held) ==
    LET Holds(b) == \E i \in 1..Len(held) : held[i] = b
    IN  IF uploads >= DiamondUploads /\ ~Holds("diamond")
        THEN Append(held, "diamond")
        ELSE IF uploads >= GoldUploads /\ ~Holds("gold")
        THEN Append(held, "gold")
        ELSE IF uploads >= PremiumUploads /\ ~Holds("premium")
        THEN Append(held, "premium")
        ELSE held

\* predicted_style and confidence_score of the stored artwork: the
\* classifier's, or the defaults when the classification raised
StoredClassification(r) ==
    IF r.kind = "result"
    THEN [predicted_style |-> r.predicted_style,
          confidence_score |-> r.confidence_score]
    ELSE [predicted_style |-> "warli", confidence_score |-> 0]

\* POST /artwork
UploadArtwork ==
    \E content_type_image \in BOOLEAN, too_large \in BOOLEAN,
       image \in Images, filename \in FilenameArgs :
        LET checked == ValidateImageFile(content_type_image, filename, too_large)
        IN  IF checked # "ok"
            THEN /\ upload' = [status |-> checked]
                 /\ UNCHANGED <<shopVars, dcVars, n_artworks, total_uploads, badges,
                                embeddingVars>>
            ELSE IF ~filename.has
            THEN \* save_uploaded_file: upload_dir / None raises
                 /\ upload' = [status |-> "500"]
                 /\ UNCHANGED <<shopVars, dcVars, n_artworks, total_uploads, badges,
                                embeddingVars>>
            ELSE /\ n_artworks < MaxArtworks
                 /\ \E r \in ClassifyOutcomes(reference_features, style_counts,
                                               image, filename) :
                       /\ result' = r
                       /\ call' = CallRecord(image, filename)
                       /\ upload' = [status |-> "stored",
                                     image |-> image,
                                     filename |-> filename.name,
                                     artwork |-> StoredClassification(r)]
                 /\ n_artworks' = n_artworks + 1
                 /\ total_uploads' = total_uploads + 1
                 /\ badges' = AwardBadges(total_uploads + 1, badges)
                 /\ UNCHANGED <<shopVars, reference_features, style_counts, embeddingVars>>

\* DELETE /artworks/{artwork_id}, for an artwork the user owns
DeleteArtwork ==
    /\ n_artworks > 0
    /\ n_artworks' = n_artworks - 1
    /\ total_uploads' = Max(0, total_uploads - 1)
    /\ UNCHANGED <<shopVars, dcVars, upload, badges, embeddingVars>>

\* the corpora of the upload scenarios: no reference folder at all, or the
\* same two references under every label
UploadCorpora ==
    {[s \in Styles |-> f] :
        f \in {AbsentFolder} \cup {[exists |-> TRUE, files |-> fs] : fs \in PairFolders}}

InitUpload == InitClassifier(UploadCorpora) /\ InitUser /\ InitShop /\ InitEmbeddingIdle

NextUpload == UploadArtwork \/ DeleteArtwork

SpecUpload == InitUpload /\ [][NextUpload]_vars

-----------------------------------------------------------------------------
(* EmbeddingClassifier over successive process starts, one caller at a time *)

CountUp(n) == Min(MaxBuildCount, n + 1)

Object(self) == [exists |-> TRUE, self |-> self]

\* a query image: its identity and whether Image.open succeeds
QueryImages ==
    {[img |-> 7, decodable |-> TRUE], [img |-> 8, decodable |-> FALSE],
     [img |-> 9, decodable |-> TRUE]}

\* The numeric content of an embedding: an L2-normalised vector with
\* non-negative entries, in hundredths (rounded down).  The two methods give
\* different vectors for the same image.
ImageVectors ==
    <<  <<100, 0>>, <<0, 100>>, <<100, 0>>, <<60, 80>>,
        <<80, 60>>, <<0, 100>>, <<60, 80>>, <<100, 0>>,
        <<70, 70>>  >>

VectorOf(emb) ==
    LET v == ImageVectors[emb.img]
    IN  IF emb.by = "cvhsv" THEN v ELSE <<v[2], v[1]>>

\* fixed point of the softmax: exps and probabilities in ten-thousandths
FixedPoint == 10000

\* exp(-0.01 / temp) for temp = 0.05, in ten-thousandths
ExpStep == 8187

\* exp(-d / (100 * temp)) for a logit d hundredths below the largest one
RECURSIVE ExpNeg(_)
ExpNeg(d) == IF d = 0 THEN FixedPoint ELSE (ExpNeg(d - 1) * ExpStep) \div FixedPoint

ExpNegOf == [d \in 0..100 |-> ExpNeg(d)]

\* embeddings[idxs].mean(axis=0), then c / (norm(c) + 1e-9)
Centroid(rows, idxs) ==
    LET n == Len(idxs)
        sum1 == SumFrom([k \in 1..n |-> VectorOf(rows[idxs[k]])[1]], 1)
        sum2 == SumFrom([k \in 1..n |-> VectorOf(rows[idxs[k]])[2]], 1)
        c == <<sum1 \div n, sum2 \div n>>
        norm == ISqrt(Dot(c, c))
    IN  IF norm = 0 THEN <<0, 0>>
        ELSE <<(100 * c[1]) \div norm, (100 * c[2]) \div norm>>

\* logits = centroids @ emb, in hundredths; a label without rows gets the
\* zero centroid
Logits(self, labs, emb) ==
    [l \in Range(labs) |->
        IF l \notin DOMAIN self.class_to_indices
           \/ Len(self.class_to_indices[l]) = 0
        THEN 0
        ELSE Dot(Centroid(self.embeddings.rows, self.class_to_indices[l]),
                 VectorOf(emb)) \div 100]

\* variant: the exponentials without the division by their sum
Softmax_Unnormalised(logits, labs) ==
    LET top == MaxOfSeq([i \in 1..Len(labs) |-> logits[labs[i]]])
    IN  [l \in DOMAIN logits |-> ExpNegOf[top - logits[l]]]

\* exps = np.exp((logits - logits.max()) / temp); probs = exps / exps.sum()
Softmax(logits, labs) ==
    LET top == MaxOfSeq([i \in 1..Len(labs) |-> logits[labs[i]]])
        exps == [l \in DOMAIN logits |-> ExpNegOf[top - logits[l]]]
        total == SumFrom([i \in 1..Len(labs) |-> exps[labs[i]]], 1)
    IN  [l \in DOMAIN logits |-> (FixedPoint * exps[l]) \div total]

\* variant: the last position holding the largest value
ArgMaxLabel_Last(probs, labs) ==
    labs[CHOOSE i \in 1..Len(labs) :
            /\ \A j \in 1..Len(labs) : probs[labs[j]] <= probs[labs[i]]
            /\ \A j \in (i + 1)..Len(labs) : probs[labs[j]] < probs[labs[i]]]

\* np.argmax(probs) over labs: the first position holding the largest value
ArgMaxLabel(probs, labs) ==
    labs[CHOOSE i \in 1..Len(labs) :
            /\ \A j \in 1..Len(labs) : probs[labs[j]] <= probs[labs[i]]
            /\ \A j \in 1..(i - 1) : probs[labs[j]] < probs[labs[i]]]

\* the return value of classify: the prediction, the distribution over the
\* labels of the index, the method identifier, and for each similarity
\* computed the method that produced the query and the methods that
\* produced the rows
ClassifyResult(self, tf_available, image) ==
    LET emb == EmbedImage(tf_available, image.img)
        labs == SortedSet(Range(self.labels))
        probs == Softmax(Logits(self, labs, emb), labs)
        predicted == ArgMaxLabel(probs, labs)
    IN  [kind |-> "result",
         predicted_style |-> predicted,
         confidence_score |-> probs[predicted],
         all_predictions |-> probs,
         method |-> IF tf_available THEN "mobilenetv2-embeddings-knn"
                    ELSE "cvhsv-embeddings-knn",
         labs |-> labs,
         query |-> emb,
         query_by |-> emb.by,
         rows_by |-> {self.embeddings.rows[i].by :
                         i \in 1..Len(self.embeddings.rows)}]

RaisedError(what) == [kind |-> "raise", error |-> what]

InitIndex ==
    /\ InitClassifier({[s \in Styles |-> AbsentFolder]})
    /\ InitUser
    /\ InitShop
    /\ index_files = [f \in IndexFileNames |-> NoFile]
    /\ meta_file = NoMeta
    /\ dataset \in Datasets
    /\ \E env \in ProcessEnvs : FreshProcess(env)

\* the server process ends and a new one starts: the optional libraries and
\* the dataset directory may have changed, the files of the index stay
ProcessStart ==
    /\ \E env \in ProcessEnvs :
          /\ proc' = env
          /\ objects' = [o \in ObjectIds |-> NoObject]
          /\ singleton' = 0
          /\ last_load' = NoLoad
          /\ ec_result' = NoResult
          /\ pc' = [t \in ObjectIds |-> "idle"]
          /\ builds_running' = 0
          /\ builds_started' = 0
    /\ dataset' \in Datasets
    /\ UNCHANGED <<shopVars, dcVars, userVars, index_files, meta_file>>

\* get_embedding_classifier() with _singleton None: EmbeddingClassifier(),
\* whose __init__ swallows what _load_or_build_index raises
GetEmbeddingClassifier ==
    /\ singleton = 0
    /\ LET r == LoadOrBuildIndex(NewInstance(proc.tf), index_files, meta_file,
                                 dataset, proc)
       IN  /\ objects' = [objects EXCEPT ![1] = Object(r.self)]
           /\ index_files' = r.files
           /\ meta_file' = r.meta
           /\ last_load' = r.report
           /\ builds_started' = IF r.report.build_entered
                                THEN CountUp(builds_started) ELSE builds_started
    /\ singleton' = 1
    /\ UNCHANGED <<shopVars, dcVars, userVars, dataset, proc, ec_result, pc, builds_running>>

\* get_embedding_classifier().classify(image_bytes)
ClassifyEmbedding ==
    /\ singleton # 0
    /\ \E image \in QueryImages :
          LET self == objects[singleton].self
              reload == ~self.loaded \/ self.embeddings.is_none
              r == LoadOrBuildIndex(self, index_files, meta_file, dataset, proc)
              ready == IF reload THEN r.self ELSE self
          IN  IF ~proc.tf /\ ~proc.cv2
              THEN /\ ec_result' = RaisedError("RuntimeError")
                   /\ UNCHANGED <<shopVars, objects, index_files, meta_file, last_load,
                                  builds_started>>
              ELSE /\ objects' = [objects EXCEPT ![singleton] = Object(ready)]
                   /\ index_files' = IF reload THEN r.files ELSE index_files
                   /\ meta_file' = IF reload THEN r.meta ELSE meta_file
                   /\ last_load' = IF reload THEN r.report ELSE last_load
                   /\ builds_started' = IF reload /\ r.report.build_entered
                                        THEN CountUp(builds_started)
                                        ELSE builds_started
                   /\ ec_result' =
                          IF reload /\ r.report.outcome = "raise"
                          THEN RaisedError("RuntimeError")
                          ELSE IF ~image.decodable
                          THEN RaisedError("UnidentifiedImageError")
                          ELSE ClassifyResult(ready, proc.tf, image)
    /\ UNCHANGED <<shopVars, dcVars, userVars, dataset, proc, singleton, pc, builds_running>>

NextIndex == ProcessStart \/ GetEmbeddingClassifier \/ ClassifyEmbedding

SpecIndex == InitIndex /\ [][NextIndex]_vars

-----------------------------------------------------------------------------
(* get_embedding_classifier called from several threads of one process *)

InitThreads == InitIndex

\* `if _singleton is None`
ThreadCheck(t) ==
    /\ pc[t] = "idle"
    /\ pc' = [pc EXCEPT ![t] = IF singleton = 0 THEN "init" ELSE "done"]
    /\ UNCHANGED <<shopVars, dcVars, userVars, diskVars, ecVars, builds_running,
                   builds_started>>

\* EmbeddingClassifier.__init__ up to the end of the load branch
ThreadLoad(t) ==
    /\ pc[t] = "init"
    /\ LET load == LoadIndex(NewInstance(proc.tf),
                             index_files[IndexFileOf(proc.tf)], meta_file,
                             proc.allow_pickle)
       IN  /\ objects' = [objects EXCEPT ![t] = Object(load.self)]
           /\ pc' = [pc EXCEPT ![t] = IF load.done THEN "assign" ELSE "build"]
           /\ builds_running' = IF load.done THEN builds_running
                                ELSE builds_running + 1
           /\ builds_started' = IF load.done THEN builds_started
                                ELSE CountUp(builds_started)
    /\ UNCHANGED <<shopVars, dcVars, userVars, diskVars, proc, singleton, last_load,
                   ec_result>>

\* the build branch, to the end of __init__
ThreadBuild(t) ==
    /\ pc[t] = "build"
    /\ LET self == objects[t].self
           build == BuildIndex(self, dataset, DefaultMaxPerClass, proc.tf)
       IN  IF build.done
           THEN /\ objects' = [objects EXCEPT
                                 ![t] = Object([build.self EXCEPT !.loaded = TRUE])]
                /\ index_files' = [index_files EXCEPT
                                     ![self.index_file] = SavedFile(build.self)]
                /\ meta_file' = SavedMeta(build.self)
           ELSE UNCHANGED <<shopVars, objects, index_files, meta_file>>
    /\ pc' = [pc EXCEPT ![t] = "assign"]
    /\ builds_running' = builds_running - 1
    /\ UNCHANGED <<shopVars, dcVars, userVars, dataset, proc, singleton, last_load,
                   ec_result, builds_started>>

\* `_singleton = EmbeddingClassifier(dataset_dir)`
ThreadAssign(t) ==
    /\ pc[t] = "assign"
    /\ singleton' = t
    /\ pc' = [pc EXCEPT ![t] = "done"]
    /\ UNCHANGED <<shopVars, dcVars, userVars, diskVars, proc, objects, last_load,
                   ec_result, builds_running, builds_started>>

NextThreads ==
    \E t \in ObjectIds :
        ThreadCheck(t) \/ ThreadLoad(t) \/ ThreadBuild(t) \/ ThreadAssign(t)

SpecThreads == InitThreads /\ [][NextThreads]_vars

-----------------------------------------------------------------------------
(* Properties of DatasetClassifier.classify_image, under Spec *)

Returned == result.kind = "result"

\* the last call went through the comparison (the try block returned)
ComparisonPath == Returned /\ result.model_version = "dataset-comparison-v1"

\* the winning combined score of the last call: the largest recorded score
IsWinningScore(w) ==
    /\ \E s \in Styles : result.style_scores[s] = w
    /\ \A s \in Styles : result.style_scores[s] <= w

LowScoreCase ==
    ComparisonPath /\ \A s \in Styles : result.style_scores[s] < LowThreshold

HighScoreCase ==
    ComparisonPath /\ \E s \in Styles : result.style_scores[s] >= LowThreshold

HasLargestCount(style) ==
    \A s \in Styles : style_counts[s] <= style_counts[style]

\* C1: whenever the winning combined score is below 0.5, the predicted label
\* is the label with the largest recorded reference count and the returned
\* confidence_score is exactly 0.75.
C1_LowScoreReturnsDefaultConfidence ==
    LowScoreCase =>
        /\ HasLargestCount(result.predicted_style)
        /\ result.confidence_score = DefaultConfidence

\* C2: every result returned by classify_image, on every path, has its
\* confidence_score within [0, 0.98].
C2_ConfidenceClamped ==
    Returned =>
        /\ result.confidence_score >= 0
        /\ result.confidence_score <= ClampMax

\* a comparison whose boosted winning score exceeds 0.98 was returned clamped
C2_Witness ==
    /\ HighScoreCase
    /\ \E s \in Styles : result.style_scores[s] + Boost > ClampMax
    /\ result.confidence_score = ClampMax

\* C3: when the winning combined score is at least 0.5, the predicted label
\* carries the maximum combined score and the confidence is
\* min(0.98, winning combined score + 0.15).
C3_HighScorePrediction ==
    HighScoreCase =>
        LET w == result.style_scores[result.predicted_style]
        IN  /\ IsWinningScore(w)
            /\ result.confidence_score =
                   (IF w + Boost > ClampMax THEN ClampMax ELSE w + Boost)

\* a label other than the first wins with a boosted score below the clamp
C3_Witness ==
    /\ HighScoreCase
    /\ result.predicted_style = "madhubani"
    /\ result.style_scores["madhubani"] > result.style_scores["warli"]
    /\ result.confidence_score < ClampMax
    /\ result.confidence_score = result.style_scores["madhubani"] + Boost

\* m is the largest cosine similarity between the query and the references
IsBestCosine(m, query, refs) ==
    /\ \E i \in 1..Len(refs) : CosineSimilarityOf[query][refs[i]] = m
    /\ \A i \in 1..Len(refs) : CosineSimilarityOf[query][refs[i]] <= m

HasReferences(style) ==
    style \in DOMAIN reference_features /\ Len(reference_features[style]) >= 1

\* C4: for every label with at least one reference sample, the recorded
\* score is 0.7 * (the maximum cosine similarity between the query and that
\* label's references) + 0.3 * (the label's filename score).
C4_ScoreIsBestMatchBlend ==
    ComparisonPath =>
        \A s \in Styles :
            HasReferences(s) =>
                \E m \in 0..100 :
                    /\ IsBestCosine(m, call.image.features, reference_features[s])
                    /\ result.style_scores[s] =
                           WeightBase * m + WeightFname * call.filename_scores[s]

\* a label with two references of different similarity and a filename hit
C4_Witness ==
    /\ ComparisonPath
    /\ \E s \in Styles :
          /\ HasReferences(s)
          /\ Len(reference_features[s]) = 2
          /\ CosineSimilarityOf[call.image.features][reference_features[s][1]]
                 < CosineSimilarityOf[call.image.features][reference_features[s][2]]
          /\ call.filename_scores[s] > 0
          /\ result.style_scores[s] > 0

NameOccurs(style, filename) == Contains(Lower(filename), style)

KeywordOccurs(style, filename) ==
    \E i \in 1..Len(StyleKeywords(style)) :
        Contains(Lower(filename), StyleKeywords(style)[i])

\* the score the contract gives, tabulated over the model's filenames
ContractScoreOf ==
    [n \in Filenames |-> [s \in Styles |->
        IF NameOccurs(s, n) THEN FnameStrong
        ELSE IF KeywordOccurs(s, n) THEN FnameWeak
        ELSE 0]]

\* C5: the filename heuristic returns 0.95 if the label's own name occurs in
\* the lowercased filename (also when one of its keywords occurs), otherwise
\* 0.7 if one of its keywords occurs, otherwise 0.
C5_FilenameHeuristic ==
    (call.kind = "classify_image" /\ DOMAIN call.filename_scores = Styles) =>
        \A s \in Styles :
            /\ call.filename_scores[s] \in {0, FnameWeak, FnameStrong}
            /\ call.filename_scores[s] = ContractScoreOf[call.filename.name][s]

\* an upper-case filename holding both the label's name and one of its
\* keywords scored 0.95, and the filename of the documented example too
C5_Witness ==
    /\ call.kind = "classify_image"
    /\ DOMAIN call.filename_scores = Styles
    /\ \/ /\ call.filename.name = "WARLI_tribal.PNG"
          /\ call.filename_scores["warli"] = FnameStrong
       \/ /\ call.filename.name = "my_warli_art.jpg"
          /\ call.filename_scores["warli"] = FnameStrong
          /\ call.filename_scores["madhubani"] = 0

-----------------------------------------------------------------------------
(* Properties of the upload route, under SpecUpload *)

Undecodable(image) == image.decode # "ok"

\* C6: an undecodable image is reported as a distinct error and never as a
\* classification result: classify_image on undecodable bytes returns no
\* result, and the upload that supplied those bytes is not stored.
C6_UndecodableImageIsAnError ==
    /\ (call.kind = "classify_image" /\ Undecodable(call.image)) => ~Returned
    /\ (upload.status = "stored") => ~Undecodable(upload.image)

-----------------------------------------------------------------------------
(* Properties of the persisted index, under SpecIndex *)

LoadCalled == last_load.outcome # "none"

TheSingleton == objects[singleton].self

\* the files the last _load_or_build_index call found: an index file and a
\* metadata record whose method tag differs from / equals the active method
PersistedMismatch ==
    /\ LoadCalled
    /\ last_load.file_before.exists /\ last_load.meta_before.exists
    /\ last_load.meta_before.method # last_load.method

PersistedSameMethod ==
    /\ LoadCalled
    /\ last_load.file_before.exists /\ last_load.meta_before.exists
    /\ last_load.meta_before.method = last_load.method

\* C7: when the persisted metadata carries a method tag different from the
\* active method, _load_or_build_index treats it as a cache miss: it does
\* not return through the load branch, and it leaves loaded = true only
\* after a rebuild replaced the vectors read from the persisted index.
C7_MismatchIsCacheMiss ==
    PersistedMismatch =>
        /\ last_load.outcome # "loaded"
        /\ (singleton # 0 /\ TheSingleton.loaded) =>
               /\ last_load.outcome = "built"
               /\ meta_file.method = TheSingleton.method
               /\ \A i \in 1..Len(TheSingleton.embeddings.rows) :
                      TheSingleton.embeddings.rows[i].by = TheSingleton.method

\* an index tagged "cvhsv" met by a "mobilenetv2" process was read in full,
\* rejected on its tag, and rebuilt
C7_Witness ==
    /\ PersistedMismatch
    /\ last_load.meta_before.method = "cvhsv"
    /\ last_load.method = "mobilenetv2"
    /\ last_load.mismatch
    /\ last_load.outcome = "built"
    /\ singleton # 0 /\ TheSingleton.loaded

C9_ReloadRoundTrip ==
    (PersistedSameMethod /\ singleton # 0 /\ ec_result.kind = "none") =>
        /\ last_load.outcome = "loaded"
        /\ ~last_load.build_entered
        /\ TheSingleton.embeddings = Rows(last_load.file_before.embeddings)
        /\ TheSingleton.labels = last_load.file_before.labels
        /\ TheSingleton.label_names = last_load.meta_before.label_names

-----------------------------------------------------------------------------
(* Properties of concurrent first requests, under SpecThreads *)

\* C10: in every interleaving of concurrent first calls of
\* get_embedding_classifier, at most one index build is in progress at any
\* time and the build body runs once.
C10_SingleBuild ==
    /\ builds_running <= 1
    /\ builds_started <= 1

-----------------------------------------------------------------------------
(* Properties of sequential classify calls in one process, under SpecIndex *)

\* C11: in a sequential series of calls within one process the index build
\* starts at most once: after the first load/build attempt of the process,
\* successful or not, no classify call starts another build.
C11_BuildOncePerProcess ==
    (singleton # 0 /\ LoadCalled) => builds_started <= 1

-----------------------------------------------------------------------------
(* One server process serving both classifiers: classify_image calls and   *)
(* calls of the embedding classifier, over an index a previous process may  *)
(* have persisted                                                           *)

\* the index files a previous process under one method left behind
PriorDisk(tf_available, items) ==
    LET r == LoadOrBuildIndex(NewInstance(tf_available),
                              [f \in IndexFileNames |-> NoFile], NoMeta, items,
                              [tf |-> tf_available, cv2 |-> TRUE,
                               allow_pickle |-> FALSE])
    IN  [files |-> r.files, meta |-> r.meta]

\* the corpus directories of this scenario: missing or empty, or two labels
\* of which one holds an undecodable file
ServiceDatasets == {d \in Datasets : Len(d) = 0 \/ Len(d) = 4}

PriorDisks == {PriorDisk(tf, items) : tf \in BOOLEAN, items \in ServiceDatasets}

InitService ==
    /\ InitClassifier(UploadCorpora)
    /\ InitUser
    /\ InitShop
    /\ \E disk \in PriorDisks :
          /\ index_files = disk.files
          /\ meta_file = disk.meta
    /\ dataset \in ServiceDatasets
    /\ \E env \in ProcessEnvs : FreshProcess(env)

NextService == Classify \/ GetEmbeddingClassifier \/ ClassifyEmbedding

SpecService == InitService /\ [][NextService]_vars

\* the fields of an EmbeddingClassifier instance that make up its index
IndexOf(self) ==
    [embeddings |-> self.embeddings,
     labels |-> self.labels,
     label_names |-> self.label_names,
     class_to_indices |-> self.class_to_indices]

\* C12: the reference index is read-only once built: no call changes
\* embeddings, labels, label_names or class_to_indices of a loaded
\* EmbeddingClassifier, and no call changes reference_features or
\* style_counts of the DatasetClassifier, on any path.
C12_IndexReadOnly ==
    [][ /\ (singleton # 0 /\ objects[singleton].self.loaded) =>
              /\ singleton' = singleton
              /\ IndexOf(objects'[singleton].self) = IndexOf(objects[singleton].self)
              /\ objects'[singleton].self.loaded
        /\ reference_features' = reference_features
        /\ style_counts' = style_counts ]_vars

\* both classifiers have answered over a non-empty index, the
\* DatasetClassifier through its random fallback
C12_Witness ==
    /\ singleton # 0 /\ TheSingleton.loaded
    /\ ec_result.kind = "result"
    /\ Returned /\ result.model_version = "random-fallback-v1"
    /\ \E s \in DOMAIN reference_features : Len(reference_features[s]) > 0

-----------------------------------------------------------------------------
(* Properties of the fallbacks of classify_image, under Spec *)

\* the last call had a string filename and Image.open raised
MainPathFailed ==
    /\ call.kind = "classify_image"
    /\ call.filename.has
    /\ call.image.decode = "open_fails"

\* the labels whose name occurs in a filename, tabulated
LabelsNamedIn == [n \in Filenames |-> {s \in Styles : NameOccurs(s, n)}]

\* the first label, in the order warli, madhubani, pithora, among a set
FirstLabelOf(S) ==
    StyleOrder[CHOOSE i \in 1..Len(StyleOrder) :
                  /\ StyleOrder[i] \in S
                  /\ \A j \in 1..(i - 1) : StyleOrder[j] \notin S]

NoReferenceSamples ==
    \A s \in Styles : s \notin DOMAIN reference_features
                      \/ Len(reference_features[s]) = 0

\* C14: a result produced in degraded mode carries a method identifier that
\* reveals the degradation: with no reference sample for any label, the
\* identifier of a result differs from "dataset-comparison-v1", the one
\* returned in full operation.
C14_DegradedModeIdentified ==
    (Returned /\ NoReferenceSamples) =>
        result.model_version # "dataset-comparison-v1"

\* C17: every result of classify_image, on every path, has a score mapping
\* with an entry for each of warli, madhubani and pithora, and every entry
\* is non-negative.
C17_ScoreMappingComplete ==
    Returned =>
        /\ DOMAIN result.style_scores = Styles
        /\ \A s \in DOMAIN result.style_scores : result.style_scores[s] >= 0

\* C18: the filename is optional: classify_image called with a null
\* filename returns a result and does not raise, when the image decodes
\* and when the main path fails.
C18_FilenameOptional ==
    (call.kind = "classify_image" /\ ~call.filename.has) => Returned

\* the same bytes: the same file, whatever vector the extraction drew for it
SameBytes(a, b) ==
    /\ a.decode = b.decode
    /\ (a.decode = "ok") => (a.features = b.features)

\* C19: extraction is deterministic, so two classifications of the same
\* image bytes and filename against the same index return the same score
\* mapping.
C19_SameInputSameScores ==
    [][ ( /\ call.kind = "classify_image" /\ call'.kind = "classify_image"
          /\ SameBytes(call.image, call'.image)
          /\ call'.filename = call.filename
          /\ reference_features' = reference_features
          /\ result.kind = "result" /\ result'.kind = "result" )
        => result'.style_scores = result.style_scores ]_vars

-----------------------------------------------------------------------------
(* Properties of the degraded modes of both classifiers, under SpecService *)

\* the build branch ran over a corpus directory without any image
BuildOverEmptyCorpus ==
    /\ LoadCalled
    /\ last_load.build_entered
    /\ dataset = <<>>

\* the last classify_image call met no reference sample and a filename that
\* scores above 0 for some label
FilenameOnlyCall ==
    /\ call.kind = "classify_image"
    /\ call.filename.has
    /\ NoReferenceSamples
    /\ \E s \in Styles : ContractScoreOf[call.filename.name][s] > 0

\* C15: building the index from an empty or missing corpus directory fails
\* with an error, yet classification still returns a well-formed result
\* instead of failing the call: a classify call of the embedding classifier
\* over the empty corpus does not raise the build's error, and
\* classify_image of a file whose name contains a label keyword returns a
\* result through the filename.
C15_EmptyCorpusStillClassifies ==
    /\ BuildOverEmptyCorpus => last_load.outcome = "raise"
    /\ (BuildOverEmptyCorpus /\ (proc.tf \/ proc.cv2) /\ ec_result.kind = "raise")
           => ec_result.error # "RuntimeError"
    /\ FilenameOnlyCall =>
           /\ Returned
           /\ result.predicted_style \in Styles
           /\ result.confidence_score \in 0..ClampMax

-----------------------------------------------------------------------------
(* Properties of the optional libraries, under SpecIndex *)

\* C16: when the deep-learning runtime is unavailable the classifier falls
\* back to the handcrafted strategy rather than failing: whatever other
\* optional library is present, classify on a decodable image over a built
\* index returns a result tagged with the handcrafted method.
C16_HandcraftedFallback ==
    (/\ ~proc.tf
     /\ singleton # 0 /\ TheSingleton.loaded
     /\ ec_result.kind # "none")
        => \/ /\ ec_result.kind = "result"
              /\ ec_result.method = "cvhsv-embeddings-knn"
           \/ /\ ec_result.kind = "raise"
              /\ ec_result.error = "UnidentifiedImageError"

-----------------------------------------------------------------------------
(* Properties of the distribution classify returns, under SpecIndex *)

\* the sum of the entries of a mapping over labels
SumOver(f) ==
    LET keys == SortedSet(DOMAIN f)
    IN  SumFrom([i \in 1..Len(keys) |-> f[keys[i]]], 1)

\* each entry is rounded down to a ten-thousandth: the sum may fall short
\* of 1 by less than one ten-thousandth per label
SumTolerance(f) == Cardinality(DOMAIN f)

\* C20: for every index in which each label has at least one reference
\* sample and for every query vector, classify returns a distribution with
\* exactly one entry per label of the index, every entry non-negative, and
\* the entries summing to 1.0 within tolerance.
C20_DistributionSumsToOne ==
    (singleton # 0 /\ ec_result.kind = "result") =>
        LET probs == ec_result.all_predictions
        IN  /\ DOMAIN probs = Range(TheSingleton.labels)
            /\ \A l \in DOMAIN probs : probs[l] >= 0
            /\ SumOver(probs) <= FixedPoint
            /\ FixedPoint - SumOver(probs) <= SumTolerance(probs)

\* a distribution over two labels in which both carry weight
C20_Witness ==
    /\ singleton # 0 /\ ec_result.kind = "result"
    /\ Cardinality(DOMAIN ec_result.all_predictions) = 2
    /\ \A l \in DOMAIN ec_result.all_predictions :
          ec_result.all_predictions[l] > 0

\* the cosine similarity of the query of the last result to the centroid
\* of each label of the index
CentroidSimilarities ==
    Logits(TheSingleton, SortedSet(Range(TheSingleton.labels)), ec_result.query)

\* label a comes before label b in lexical order
LexicallyBefore(a, b) ==
    \E i, j \in 1..Len(LabelOrder) :
        LabelOrder[i] = a /\ LabelOrder[j] = b /\ i < j

\* C21: classify returns as predicted label the label whose centroid has
\* the highest cosine similarity to the query and as confidence that
\* label's probability in the returned distribution; among labels exactly
\* tied for the maximum the lexically lowest one wins.
C21_PredictionIsArgmax ==
    (singleton # 0 /\ ec_result.kind = "result") =>
        LET sims == CentroidSimilarities
            p == ec_result.predicted_style
        IN  /\ p \in DOMAIN sims
            /\ \A l \in DOMAIN sims : sims[l] <= sims[p]
            /\ \A l \in DOMAIN sims : sims[l] = sims[p] => ~LexicallyBefore(l, p)
            /\ ec_result.confidence_score = ec_result.all_predictions[p]

\* a query at the same similarity from the warli and the madhubani
\* centroid came back as madhubani
C21_Witness ==
    /\ singleton # 0 /\ ec_result.kind = "result"
    /\ DOMAIN CentroidSimilarities = {"warli", "madhubani"}
    /\ CentroidSimilarities["warli"] = CentroidSimilarities["madhubani"]
    /\ ec_result.predicted_style = "madhubani"

-----------------------------------------------------------------------------
(* Index builds under a cap: DatasetClassifier() over folders longer than   *)
(* its cap, and _load_or_build_index(max_per_class) with a small cap        *)

MaxCap == 2

\* reference folders around the cap of 10: a short one with an undecodable
\* file, one file more than the cap, and the same with an undecodable file
\* in front
ManyGoodFiles(n) == [i \in 1..n |-> GoodFile(<<1, 0>>)]

CapFolders ==
    {AbsentFolder}
      \cup {[exists |-> TRUE, files |-> fs] :
               fs \in {<<GoodFile(<<1, 1>>), BadFile>>,
                       ManyGoodFiles(RefCap + 1),
                       <<BadFile>> \o ManyGoodFiles(RefCap)}}

\* one folder of those under one label or under all of them
CapCorpora ==
    {[s \in Styles |-> IF s = t THEN f ELSE AbsentFolder] :
         t \in Styles, f \in CapFolders}
      \cup {[s \in Styles |-> f] : f \in CapFolders}

\* what the construction of the DatasetClassifier leaves to observe
LoadRecord(corpus, failAt) ==
    [kind |-> "load_reference_images", corpus |-> corpus, failAt |-> failAt]

InitBuild ==
    /\ \E corpus \in CapCorpora, failAt \in Styles \cup {"none"} :
          LET loaded == LoadReferenceImages(corpus, failAt)
          IN  /\ reference_features = loaded.reference_features
              /\ style_counts = loaded.style_counts
              /\ call = LoadRecord(corpus, failAt)
    /\ result = NoCall
    /\ InitUser
    /\ InitShop
    /\ index_files = [f \in IndexFileNames |-> NoFile]
    /\ meta_file = NoMeta
    /\ dataset \in Datasets
    /\ \E env \in ProcessEnvs : FreshProcess(env)

\* get_embedding_classifier()._load_or_build_index(max_per_class)
LoadOrBuildIndexCapped ==
    /\ singleton # 0
    /\ \E max_per_class \in 1..MaxCap :
          LET r == LoadOrBuildIndexWith(objects[singleton].self, index_files,
                                        meta_file, dataset, proc, max_per_class)
          IN  /\ objects' = [objects EXCEPT ![singleton] = Object(r.self)]
              /\ index_files' = r.files
              /\ meta_file' = r.meta
              /\ last_load' = r.report
              /\ builds_started' = IF r.report.build_entered
                                   THEN CountUp(builds_started)
                                   ELSE builds_started
    /\ UNCHANGED <<shopVars, dcVars, userVars, dataset, proc, singleton, ec_result, pc,
                   builds_running>>

NextBuild == GetEmbeddingClassifier \/ LoadOrBuildIndexCapped

SpecBuild == InitBuild /\ [][NextBuild]_vars

\* the last _load_or_build_index call went through the build and saved
IndexBuilt == singleton # 0 /\ LoadCalled /\ last_load.outcome = "built"

\* C22: after an index build the number of reference samples held per label
\* never exceeds the cap: at most max_per_class vectors per label in the
\* EmbeddingClassifier index and at most 10 entries per label in
\* reference_features, for every corpus.
C22_SamplesPerLabelCapped ==
    /\ \A s \in DOMAIN reference_features : Len(reference_features[s]) <= RefCap
    /\ IndexBuilt =>
          \A l \in DOMAIN TheSingleton.class_to_indices :
              Len(TheSingleton.class_to_indices[l]) <= last_load.max_per_class

\* a folder of 11 files left 10 references, and a label with two decodable
\* images left one vector under max_per_class = 1
C22_Witness ==
    /\ call.kind = "load_reference_images"
    /\ \E s \in DOMAIN reference_features :
          /\ Len(call.corpus[s].files) > RefCap
          /\ Len(reference_features[s]) = RefCap
    /\ IndexBuilt
    /\ last_load.max_per_class = 1
    /\ Len(SelectSeq(dataset, LAMBDA it : it.label = "warli" /\ it.decodable)) = 2
    /\ Len(TheSingleton.class_to_indices["warli"]) = 1

\* the number of files of a folder that Image.open accepts
DecodableFiles(files) == Len(SelectSeq(files, LAMBDA f : f.kind # "undecodable"))

\* the number of images of a label in the dataset that can be embedded
DecodableImages(label) ==
    Len(SelectSeq(dataset, LAMBDA it : it.label = label /\ it.decodable))

\* the number of vectors the index holds for a label
IndexedUnder(label) ==
    IF label \in DOMAIN TheSingleton.class_to_indices
    THEN Len(TheSingleton.class_to_indices[label])
    ELSE 0

\* C23: an index build skips samples that fail to decode without aborting
\* and without letting them consume the cap: for every label the number of
\* samples indexed equals min(cap, number of decodable image files of that
\* label), in _load_or_build_index and in _load_reference_images.
C23_UndecodableSkippedOutsideCap ==
    /\ IndexBuilt =>
          \A l \in Range(LabelOrder) :
              IndexedUnder(l) = Min(last_load.max_per_class, DecodableImages(l))
    /\ (call.kind = "load_reference_images" /\ call.failAt = "none") =>
          \A s \in Styles :
              call.corpus[s].exists =>
                  /\ s \in DOMAIN reference_features
                  /\ Len(reference_features[s])
                        = Min(RefCap, DecodableFiles(call.corpus[s].files))

-----------------------------------------------------------------------------
(* RealArtClassifier.classify_image (ml_models/classifier)                  *)

MaxLevel == 3

RealFallbackConfidence == 33

\* self.class_names
RealClassNames == <<"madhubani", "warli", "pithora">>

\* an input of classify_image: whether preprocess_image accepts it, and the
\* output of the network for it (one level per class)
RealInputs == [decodable : BOOLEAN, predictions : [1..3 -> 0..MaxLevel]]

\* np.argmax(predictions[0]): the first position holding the largest value
ArgMaxIndex(xs) ==
    CHOOSE i \in 1..Len(xs) :
        /\ \A j \in 1..Len(xs) : xs[j] <= xs[i]
        /\ \A j \in 1..(i - 1) : xs[j] < xs[i]

RealClassifyImage(input) ==
    IF input.decodable
    THEN LET predicted_class_idx == ArgMaxIndex(input.predictions)
         IN  [kind |-> "result",
              predicted_style |-> RealClassNames[predicted_class_idx],
              confidence_score |-> input.predictions[predicted_class_idx],
              all_predictions |->
                  [n \in Range(RealClassNames) |->
                      input.predictions[CHOOSE i \in 1..3 : RealClassNames[i] = n]],
              model_version |-> "3-class-cnn"]
    ELSE \* preprocess_image raised: the fallback result of the handler
         [kind |-> "result",
          predicted_style |-> "others",
          confidence_score |-> RealFallbackConfidence,
          all_predictions |-> [n \in Range(RealClassNames) |-> RealFallbackConfidence],
          model_version |-> "3-class-cnn-fallback"]

InitReal ==
    /\ InitClassifier({[s \in Styles |-> AbsentFolder]})
    /\ InitUser
    /\ InitShop
    /\ InitEmbeddingIdle

\* real_classifier.classify_image(image_data)
RealClassify ==
    \E input \in RealInputs :
        /\ result' = RealClassifyImage(input)
        /\ call' = [kind |-> "real_classify_image",
                    decodable |-> input.decodable]
        /\ UNCHANGED <<shopVars, reference_features, style_counts, userVars, embeddingVars>>

NextReal == RealClassify

SpecReal == InitReal /\ [][NextReal]_vars

\* C24: RealArtClassifier.classify_image always returns a predicted_style
\* that is one of its three class names (madhubani, warli, pithora), never
\* "others", on every path, including the one taken when prediction raises.
C24_PredictedStyleIsClassName ==
    (call.kind = "real_classify_image" /\ Returned) =>
        result.predicted_style \in Range(RealClassNames)

-----------------------------------------------------------------------------
(* Properties of the index an instance holds, under SpecIndex *)

\* embeddings and labels of the instance the accessor returns, or those of
\* a fresh instance while there is none
HeldBefore ==
    IF singleton = 0
    THEN [embeddings |-> NoEmbeddings, labels |-> <<>>]
    ELSE [embeddings |-> TheSingleton.embeddings, labels |-> TheSingleton.labels]

\* C25: a failed index load leaves no stale data behind: when
\* _load_or_build_index fails to load the persisted index and the rebuild
\* fails too, loaded is false afterwards and embeddings and labels are the
\* same as before the call, not the vectors read from the rejected file.
C25_FailedLoadLeavesNoStaleData ==
    [][ ( /\ last_load' # last_load
          /\ last_load'.outcome = "raise"
          /\ last_load'.tried_load )
        => /\ singleton' # 0
           /\ ~objects'[singleton'].self.loaded
           /\ objects'[singleton'].self.embeddings = HeldBefore.embeddings
           /\ objects'[singleton'].self.labels = HeldBefore.labels ]_vars

\* C26: whenever loaded is true, the number of labels equals the number of
\* embedding rows and is at least 1, and class_to_indices maps each label
\* to exactly the positions of that label in labels, so the index lists
\* partition the positions.
C26_IndexConsistent ==
    (singleton # 0 /\ TheSingleton.loaded) =>
        LET labels == TheSingleton.labels
            idx == TheSingleton.class_to_indices
        IN  /\ ~TheSingleton.embeddings.is_none
            /\ Len(labels) = Len(TheSingleton.embeddings.rows)
            /\ Len(labels) >= 1
            /\ DOMAIN idx = Range(labels)
            /\ \A l \in DOMAIN idx :
                  /\ Range(idx[l]) = {i \in 1..Len(labels) : labels[i] = l}
                  /\ Len(idx[l]) = Cardinality(Range(idx[l]))
            /\ \A i \in 1..Len(labels) :
                  Cardinality({l \in DOMAIN idx : i \in Range(idx[l])}) = 1

\* an index of three rows under two labels, reloaded from disk
C26_Witness ==
    /\ singleton # 0 /\ TheSingleton.loaded
    /\ last_load.outcome = "loaded"
    /\ Len(TheSingleton.labels) = 3
    /\ Cardinality(DOMAIN TheSingleton.class_to_indices) = 2

-----------------------------------------------------------------------------
(* Properties of the prediction of classify_image, under Spec *)

\* C27: in every result of classify_image, predicted_style is a key of the
\* returned score mapping and its score is maximal among the mapping's
\* values.
C27_PredictionHasMaximalScore ==
    (call.kind = "classify_image" /\ Returned) =>
        /\ result.predicted_style \in DOMAIN result.style_scores
        /\ \A s \in DOMAIN result.style_scores :
              result.style_scores[s]
                  <= result.style_scores[result.predicted_style]

\* the earliest label, in the order warli, madhubani, pithora, that carries
\* the largest value of a mapping over the labels
EarliestLargest(f) == FirstLabelOf({s \in Styles : \A t \in Styles : f[t] <= f[s]})

\* C28: ties in classify_image are resolved by the fixed label order warli,
\* madhubani, pithora: on equal combined scores the earliest label in that
\* order is predicted, on the low-score path equal reference counts resolve
\* to the earliest label (warli when all counts are zero), and the filename
\* fallback returns the earliest label whose name occurs in the filename.
C28_TiesByLabelOrder ==
    /\ HighScoreCase =>
          result.predicted_style = EarliestLargest(result.style_scores)
    /\ LowScoreCase =>
          result.predicted_style = EarliestLargest(style_counts)
    /\ (LowScoreCase /\ \A s \in Styles : style_counts[s] = 0) =>
          result.predicted_style = "warli"
    /\ (call.kind = "classify_image" /\ Returned
        /\ result.model_version = "fallback-filename-v1") =>
          result.predicted_style = FirstLabelOf(LabelsNamedIn[call.filename.name])

\* "pithora_warli.jpg" without references scores 0.95 for warli and for
\* pithora, and warli is predicted
C28_Witness ==
    /\ HighScoreCase
    /\ call.filename.name = "pithora_warli.jpg"
    /\ result.style_scores["warli"] = result.style_scores["pithora"]
    /\ result.style_scores["madhubani"] < result.style_scores["warli"]
    /\ result.predicted_style = "warli"


-----------------------------------------------------------------------------
(***************************************************************************)
(* The cart routes (backend/app/routes/cart_new.py).  Each request is a   *)
(* coroutine; every await on a collection is a point where the requests   *)
(* of other users run, so checkout is a chain of steps, one per await:    *)
(*   idle -> get -> sell -> (get -> sell ...) -> order -> idle.           *)
(* Prices, addresses and payment methods are not part of the state.       *)
(***************************************************************************)

\* position of the cart item of `artwork_id` in a cart, 0 if there is none
CartPosition(cart, artwork_id) ==
    IF \E i \in DOMAIN cart : cart[i].artwork_id = artwork_id
    THEN CHOOSE i \in DOMAIN cart : cart[i].artwork_id = artwork_id
    ELSE 0

\* add_to_cart with quantity 1: refused for an artwork that is not for sale
\* or already sold; otherwise raises the quantity of the existing cart item
\* or inserts a new one.
AddToCart(u, a) ==
    /\ artworks[a].is_for_sale /\ ~artworks[a].sold
    /\ LET i == CartPosition(carts[u], a) IN
         IF i > 0
         THEN /\ carts[u][i].quantity < MaxQuantity
              /\ carts' = [carts EXCEPT ![u][i].quantity = @ + 1]
         ELSE carts' = [carts EXCEPT
                  ![u] = Append(@, [artwork_id |-> a, quantity |-> 1])]
    /\ UNCHANGED <<dcVars, userVars, diskVars, ecVars, threadVars,
                   artworks, orders, checkout>>

\* checkout, up to the cart query: an empty cart ends the request (the 400
\* raised there is caught and sent as 500).
CheckoutBegin(u) ==
    /\ checkout[u].pc = "idle"
    /\ IF carts[u] = <<>>
       THEN checkout' = [checkout EXCEPT ![u] = [IdleCheckout EXCEPT
                                                    !.status = 500]]
       ELSE checkout' = [checkout EXCEPT ![u] = [IdleCheckout EXCEPT
                                                    !.pc = "get",
                                                    !.cart_items = carts[u],
                                                    !.next = 1]]
    /\ UNCHANGED <<dcVars, userVars, diskVars, ecVars, threadVars,
                   artworks, carts, orders>>

\* checkout: artwork = await Artwork.get(cart_item.artwork_id)
CheckoutGetArtwork(u) ==
    /\ checkout[u].pc = "get"
    /\ LET id == checkout[u].cart_items[checkout[u].next].artwork_id IN
         checkout' = [checkout EXCEPT
             ![u].pc = "sell",
             ![u].artwork = [id |-> id,
                             is_for_sale |-> artworks[id].is_for_sale,
                             sold |-> artworks[id].sold]]
    /\ UNCHANGED <<dcVars, userVars, diskVars, ecVars, threadVars,
                   artworks, carts, orders>>

\* whether checkout puts the artwork it fetched into the order
Available(artwork) == artwork.is_for_sale /\ ~artwork.sold

\* checkout: the body of the loop after the artwork arrived.  The test is
\* on the fetched copy; an available artwork joins order_items and is saved
\* with sold = True.
CheckoutSellArtwork(u) ==
    /\ checkout[u].pc = "sell"
    /\ LET artwork == checkout[u].artwork
           cart_item == checkout[u].cart_items[checkout[u].next]
           last == checkout[u].next = Len(checkout[u].cart_items)
       IN
         /\ checkout' = [checkout EXCEPT
                ![u].pc = IF last THEN "order" ELSE "get",
                ![u].next = @ + 1,
                ![u].artwork = NoArtwork,
                ![u].order_items =
                    IF Available(artwork)
                    THEN Append(@, [artwork_id |-> artwork.id,
                                    quantity |-> cart_item.quantity])
                    ELSE @]
         /\ artworks' =
                IF Available(artwork)
                THEN [artworks EXCEPT ![artwork.id] =
                         [is_for_sale |-> artwork.is_for_sale, sold |-> TRUE]]
                ELSE artworks
    /\ UNCHANGED <<dcVars, userVars, diskVars, ecVars, threadVars,
                   carts, orders>>

\* the cart after checkout deleted the cart items it had queried
WithoutItems(cart, cart_items) ==
    SelectSeq(cart, LAMBDA item :
        \A k \in DOMAIN cart_items :
            cart_items[k].artwork_id # item.artwork_id)

\* checkout, after the loop: no order item ends the request (500); otherwise
\* the order is saved and the queried cart items are deleted.
CheckoutCreateOrder(u) ==
    /\ checkout[u].pc = "order"
    /\ IF checkout[u].order_items = <<>>
       THEN /\ checkout' = [checkout EXCEPT ![u] = [IdleCheckout EXCEPT
                                                       !.status = 500]]
            /\ UNCHANGED <<carts, orders>>
       ELSE /\ orders' = Append(orders, [user_id |-> u,
                                         items |-> checkout[u].order_items])
            /\ carts' = [carts EXCEPT
                   ![u] = WithoutItems(@, checkout[u].cart_items)]
            /\ checkout' = [checkout EXCEPT ![u] = [IdleCheckout EXCEPT
                                                       !.status = 200]]
    /\ UNCHANGED <<dcVars, userVars, diskVars, ecVars, threadVars, artworks>>

InitCheckout ==
    /\ InitClassifier({[s \in Styles |-> AbsentFolder]})
    /\ InitUser
    /\ InitShop
    /\ InitEmbeddingIdle

NextCheckout ==
    \E u \in Buyers :
        \/ \E a \in ArtworkIds : AddToCart(u, a)
        \/ CheckoutBegin(u)
        \/ CheckoutGetArtwork(u)
        \/ CheckoutSellArtwork(u)
        \/ CheckoutCreateOrder(u)

SpecCheckout == InitCheckout /\ [][NextCheckout]_vars

\* the orders whose items contain the artwork
OrdersContaining(a) ==
    {i \in DOMAIN orders :
        \E k \in DOMAIN orders[i].items : orders[i].items[k].artwork_id = a}

\* C29: no double sale -- whatever the interleaving of the checkout requests
\* of different users whose carts hold the same artwork, the artwork is among
\* the items of at most one created order.
C29_NoDoubleSale ==
    \A a \in ArtworkIds : Cardinality(OrdersContaining(a)) <= 1

-----------------------------------------------------------------------------
(* Badges of a user who starts with no upload and no badge (SpecUpload) *)

HoldsBadge(b) == \E i \in DOMAIN badges : badges[i] = b

\* C30: after any sequence of uploads and deletions total_uploads is not
\* negative, no badge is held twice, and three uploads imply the premium
\* badge, five the gold badge, ten the diamond badge.
C30_BadgeThresholds ==
    /\ total_uploads >= 0
    /\ \A i, j \in DOMAIN badges : badges[i] = badges[j] => i = j
    /\ total_uploads >= PremiumUploads => HoldsBadge("premium")
    /\ total_uploads >= GoldUploads => HoldsBadge("gold")
    /\ total_uploads >= DiamondUploads => HoldsBadge("diamond")

\* a user who reached ten uploads and holds the three badges
C30_Witness ==
    /\ total_uploads = DiamondUploads
    /\ badges = <<"premium", "gold", "diamond">>
=============================================================================
